---- MODULE Spec2Model ----
(***************************************************************************)
(* Model of src/main.py: the APK dependency-graph tool.                    *)
(*                                                                         *)
(*   Spec       main(): load, lookup, build_reverse_index, the recursive   *)
(*              traversal build_dependency_graph / build_reverse_graph     *)
(*              (one step per call, guard, loop iteration and return),     *)
(*              and the presentation with print_ascii_tree.                *)
(*   FairSpec   the traversal alone, from any call of it to its return,    *)
(*              with weak fairness of its steps (the interpreter always    *)
(*              takes the next step of a single-threaded program).         *)
(*   ParseSpec  parse_apkindex, one step per line of the index text.       *)
(*                                                                         *)
(* Package names, tokens and lines are sequences of one-character strings, *)
(* so that substring tests and splitting are computed, not assumed.        *)
(***************************************************************************)
EXTENDS Integers, Sequences, FiniteSets, TLC

VARIABLES args, pc, repo, repo_keys, reverse_repo, stack, graph, cycles,
          writes, out, tree, exit_status,
          text, pos, packages, current_pkg, current_name

vars == <<args, pc, repo, repo_keys, reverse_repo, stack, graph, cycles,
          writes, out, tree, exit_status,
          text, pos, packages, current_pkg, current_name>>

mainVars_but_pc == <<args, repo, repo_keys, reverse_repo, stack, graph, cycles,
                     writes, out, tree, exit_status>>

parseVars == <<text, pos, packages, current_pkg, current_name>>

----------------------------------------------------------------------------
(* Bounds of the model.                                                    *)

\* largest --max-depth tried (positive_int accepts every integer >= 1)
MaxDepthArg == 2

\* largest total number of dependency entries in a loaded index
MaxEdges == 3

\* longest value of a D line tried by ParseSpec
MaxValueLen == 4

\* recursion limit of the interpreter (1000 by default), scaled to the model:
\* a traversal nests at most max_depth + 2 calls
RecursionLimit == 8

----------------------------------------------------------------------------
(* Values.                                                                 *)

\* the package names of the model; "ab" contains "b" without being equal to it
Names == {<<"a">>, <<"b">>, <<"a", "b">>}

\* the order in which the records of an index are inserted into the dict
NameOrder == <<<<"a">>, <<"b">>, <<"a", "b">>>>

\* the --filter values tried: none, and one that is a proper substring of a name
Filters == {<<>>, <<"b">>}

SeqsUpTo(S, n) == UNION {[1..k -> S] : k \in 0..n}

\* the dict r with the entry key: deps added
WithEntry(r, key, deps) ==
    [n \in DOMAIN r \cup {key} |-> IF n = key THEN deps ELSE r[n]]

RECURSIVE IndexesOver(_, _)
\* the dicts with the keys K whose lists hold at most n entries together
IndexesOver(K, n) ==
    IF K = {} THEN {<<>>}
    ELSE LET x == CHOOSE y \in K : TRUE
         IN  UNION {{WithEntry(r, x, l) : r \in IndexesOver(K \ {x}, n - Len(l))} :
                        l \in SeqsUpTo(Names, n)}

\* every index of at most MaxEdges entries: a name is a key with a list of
\* dependencies (possibly empty, possibly with repeats) or is no key at all
Repos == UNION {IndexesOver(K, MaxEdges) : K \in SUBSET Names}

\* the keys of a dict in insertion order
KeysInOrder(r) == SelectSeq(NameOrder, LAMBDA n : n \in DOMAIN r)

Range(s) == {s[i] : i \in 1..Len(s)}

\* all orders in which a set of names can be iterated
Orderings(S) ==
    {s \in [1..Cardinality(S) -> S] : \A i, j \in 1..Cardinality(S) : s[i] = s[j] => i = j}

----------------------------------------------------------------------------
(* Pure helpers of the traversal.                                          *)

\* Python's  f in s  on strings
IsSubstr(f, s) ==
    \E i \in 1..(Len(s) - Len(f) + 1) : SubSeq(s, i, i + Len(f) - 1) = f

\* filter_substr and filter_substr in name
Filtered(f, name) == f # <<>> /\ IsSubstr(f, name)

\* repo.get(name, [])
Get(m, name) == IF name \in DOMAIN m THEN m[name] ELSE <<>>

\* [d for d in deps if not (filter_substr and filter_substr in d)]
FilterDeps(f, deps) == SelectSeq(deps, LAMBDA d : ~Filtered(f, d))

\* mutant: reverse[dep] = [pkg], the earlier dependents are overwritten
AppendDependent_Overwrite(rev, dep, pkg) ==
    [d \in DOMAIN rev \cup {dep} |-> IF d = dep THEN <<pkg>> ELSE rev[d]]

\* reverse.setdefault(dep, []).append(pkg)
AppendDependent(rev, dep, pkg) ==
    IF dep \in DOMAIN rev
    THEN [rev EXCEPT ![dep] = Append(@, pkg)]
    ELSE [d \in DOMAIN rev \cup {dep} |-> IF d = dep THEN <<pkg>> ELSE rev[d]]

RECURSIVE ReverseDeps(_, _, _, _)
\* for dep in deps: ...
ReverseDeps(rev, pkg, deps, i) ==
    IF i > Len(deps) THEN rev
    ELSE ReverseDeps(AppendDependent(rev, deps[i], pkg), pkg, deps, i + 1)

RECURSIVE ReverseItems(_, _, _, _)
\* for pkg, deps in repo.items(): ...
ReverseItems(rev, r, keys, k) ==
    IF k > Len(keys) THEN rev
    ELSE ReverseItems(ReverseDeps(rev, keys[k], r[keys[k]], 1), r, keys, k + 1)

build_reverse_index(r, keys) == ReverseItems(<<>>, r, keys, 1)

\* the neighbour mapping a traversal is given: build_reverse_graph gets the
\* reverse index, build_dependency_graph the index itself
Neighbours == IF args.reverse THEN reverse_repo ELSE repo

\* the frame of a call build_*_graph(node, ..., visited, path, depth, graph)
\* that has not evaluated its guards yet
NewFrame(node, visited, path, depth) ==
    [at |-> "enter", node |-> node, depth |-> depth, visited |-> visited,
     path |-> path, deps |-> <<>>, i |-> 1, cycles |-> <<>>]

\* mutant: the recursive call leaves visited, path and current_depth to
\* their defaults
ChildFrame_Defaults(f) == NewFrame(f.deps[f.i], {}, {}, 0)

\* the recursive call of the loop body: copies of visited and path, depth + 1
ChildFrame(f) == NewFrame(f.deps[f.i], f.visited, f.path, f.depth + 1)

\* mutant: the depth guard is off by one
DepthGuard_OffByOne(f) == f.depth > args.max_depth + 1

\* if current_depth > max_depth: return graph, []
DepthGuard(f) == f.depth > args.max_depth

\* mutant: the visited guard is evaluated before the cycle guard
CycleGuard_AfterVisited(f) == f.node \in f.path /\ f.node \notin f.visited

\* if start_pkg in path
CycleGuard(f) == f.node \in f.path

\* mutant: the start of a call is compared with the filter, not searched for it
FilterGuard_Equality(f) == args.filter # <<>> /\ f.node = args.filter

\* if filter_substr and filter_substr in start_pkg: return graph, []
FilterGuard(f) == Filtered(args.filter, f.node)

\* if start_pkg in visited: return graph, []
VisitedGuard(f) == f.node \in f.visited

\* one of the four early returns is taken
GuardHit(f) == DepthGuard(f) \/ CycleGuard(f) \/ FilterGuard(f) \/ VisitedGuard(f)

\* " -> ".join(list(path) + [start_pkg]): the names of the set path in the
\* order the set happens to iterate, then the repeated node
CycleRecords(f) == {order \o <<f.node>> : order \in Orderings(f.path)}

\* the lists of cycles an early return can hand back
EarlyReturns(f) ==
    IF DepthGuard(f) THEN {<<>>}
    ELSE IF CycleGuard(f) THEN {<<c>> : c \in CycleRecords(f)}
    ELSE {<<>>}

Top == stack[Len(stack)]

\* the stack after the top frame returned sub_cycles: the caller's
\* cycles.extend(sub_cycles), and its loop moves to the next neighbour
Returned(sub_cycles) ==
    LET n == Len(stack) - 1
    IN  [SubSeq(stack, 1, n) EXCEPT ![n].cycles = @ \o sub_cycles, ![n].i = @ + 1]

----------------------------------------------------------------------------
(* The tree renderer. A line is a record: the node, what kind of line it   *)
(* is ("root" the bare start line, "node" an ordinary line, "ref" a line   *)
(* annotated as already shown, "empty" the placeholder), and its prefix    *)
(* and connector.                                                          *)

TreeLine(kind, node, prefix, connector) ==
    [kind |-> kind, node |-> node, prefix |-> prefix, connector |-> connector]

Connector(is_last) == IF is_last THEN "+-- " ELSE "|-- "

Guide(is_last) == IF is_last THEN "    " ELSE "|   "

RECURSIVE PrintNode(_, _, _, _, _, _, _)
RECURSIVE PrintChildren(_, _, _, _, _, _, _)

\* _print_ascii_tree(node, graph, visited, prefix, is_last, depth, max_depth);
\* st holds the shared visited set and the lines printed so far
PrintNode(node, g, st, prefix, is_last, depth, max_depth) ==
    IF depth > max_depth THEN st
    ELSE PrintChildren(Get(g, node), 1, g,
                       [st EXCEPT !.lines =
                            Append(@, TreeLine("node", node, prefix, Connector(is_last)))],
                       Append(prefix, Guide(is_last)), depth, max_depth)

\* for i, child in enumerate(children): ...
PrintChildren(children, i, g, st, new_prefix, depth, max_depth) ==
    IF i > Len(children) THEN st
    ELSE LET child == children[i]
             child_last == (i = Len(children))
         IN  IF child \in st.visited
             THEN PrintChildren(children, i + 1, g,
                      [st EXCEPT !.lines =
                           Append(@, TreeLine("ref", child, new_prefix, Connector(child_last)))],
                      new_prefix, depth, max_depth)
             ELSE PrintChildren(children, i + 1, g,
                      PrintNode(child, g, [st EXCEPT !.visited = @ \cup {child}],
                                new_prefix, child_last, depth + 1, max_depth),
                      new_prefix, depth, max_depth)

RECURSIVE PrintTop(_, _, _, _, _)
\* for i, child in enumerate(graph[start_pkg]): _print_ascii_tree(child, ...)
PrintTop(children, i, g, st, max_depth) ==
    IF i > Len(children) THEN st
    ELSE PrintTop(children, i + 1, g,
                  PrintNode(children[i], g, st, <<>>, i = Len(children), 1, max_depth),
                  max_depth)

\* print_ascii_tree(graph, start_pkg, max_depth): the lines it prints
print_ascii_tree(g, start_pkg, max_depth) ==
    LET root == <<TreeLine("root", start_pkg, <<>>, "")>>
    IN  IF start_pkg \in DOMAIN g /\ g[start_pkg] # <<>>
        THEN PrintTop(g[start_pkg], 1, g,
                      [visited |-> {start_pkg}, lines |-> root], max_depth).lines
        ELSE Append(root, TreeLine("empty", start_pkg, <<>>, ""))

----------------------------------------------------------------------------
(* main().                                                                 *)

\* the parsed arguments that decide the run; --ascii is read at the
\* presentation only, where MainPrintTree and MainNotice are its two values
ArgSets ==
    [package : Names, reverse : BOOLEAN, max_depth : 1..MaxDepthArg, filter : Filters]

InitParseIdle ==
    /\ text = <<>>
    /\ pos = 0
    /\ packages = <<>>
    /\ current_pkg = <<>>
    /\ current_name = <<>>

\* the arguments are parsed; nothing is loaded yet
Init ==
    /\ args \in ArgSets
    /\ pc = "load"
    /\ repo = <<>>
    /\ repo_keys = <<>>
    /\ reverse_repo = <<>>
    /\ stack = <<>>
    /\ graph = <<>>
    /\ cycles = <<>>
    /\ writes = [n \in Names |-> 0]
    /\ out = <<>>
    /\ tree = <<>>
    /\ exit_status = -1
    /\ InitParseIdle

\* repo = load_apkindex_from_file(...) or load_apkindex_from_url(...)
MainLoad ==
    /\ pc = "load"
    /\ \E r \in Repos :
        /\ repo' = r
        /\ repo_keys' = KeysInOrder(r)
    /\ pc' = "loaded"
    /\ out' = Append(out, "loaded")
    /\ UNCHANGED <<args, reverse_repo, stack, graph, cycles, writes, tree, exit_status>>
    /\ UNCHANGED parseVars

\* the loader raises RuntimeError: except Exception prints it and exits 1
MainLoadFails ==
    /\ pc = "load"
    /\ pc' = "exit"
    /\ out' = Append(out, "error")
    /\ exit_status' = 1
    /\ UNCHANGED <<args, repo, repo_keys, reverse_repo, stack, graph, cycles, writes, tree>>
    /\ UNCHANGED parseVars

\* mutant: the lookup forgets the direction
NotFound_AnyDirection == args.package \notin DOMAIN repo

\* if args.package not in repo and not args.reverse
NotFound == args.package \notin DOMAIN repo /\ ~args.reverse

\* ... print "not found"; sys.exit(1)
MainNotFound ==
    /\ pc = "loaded"
    /\ NotFound
    /\ pc' = "exit"
    /\ out' = Append(out, "not_found")
    /\ exit_status' = 1
    /\ UNCHANGED <<args, repo, repo_keys, reverse_repo, stack, graph, cycles, writes, tree>>
    /\ UNCHANGED parseVars

\* reverse_repo = build_reverse_index(repo)
MainIndex ==
    /\ pc = "loaded"
    /\ ~NotFound
    /\ reverse_repo' = build_reverse_index(repo, repo_keys)
    /\ pc' = "indexed"
    /\ UNCHANGED <<args, repo, repo_keys, stack, graph, cycles, writes, out, tree, exit_status>>
    /\ UNCHANGED parseVars

\* if args.reverse: if args.package not in reverse_repo
Nobody == args.reverse /\ args.package \notin DOMAIN reverse_repo

\* ... print "nobody depends on"; return
MainNobody ==
    /\ pc = "indexed"
    /\ Nobody
    /\ pc' = "exit"
    /\ out' = Append(out, "nobody")
    /\ exit_status' = 0
    /\ UNCHANGED <<args, repo, repo_keys, reverse_repo, stack, graph, cycles, writes, tree>>
    /\ UNCHANGED parseVars

\* the top-level call build_reverse_graph(...) or build_dependency_graph(...)
\* with fresh visited, path and graph
MainTraverse ==
    /\ pc = "indexed"
    /\ ~Nobody
    /\ stack' = <<NewFrame(args.package, {}, {}, 0)>>
    /\ graph' = <<>>
    /\ pc' = "traverse"
    /\ UNCHANGED <<args, repo, repo_keys, reverse_repo, cycles, writes, out, tree, exit_status>>
    /\ UNCHANGED parseVars

\* a call returns at one of its guards
TraverseGuard ==
    /\ pc = "traverse"
    /\ Top.at = "enter"
    /\ GuardHit(Top)
    /\ \E ret \in EarlyReturns(Top) :
        IF Len(stack) = 1
        THEN /\ cycles' = ret
             /\ stack' = <<>>
             /\ pc' = "built"
        ELSE /\ stack' = Returned(ret)
             /\ UNCHANGED <<cycles, pc>>
    /\ UNCHANGED <<args, repo, repo_keys, reverse_repo, graph, writes, out, tree, exit_status>>
    /\ UNCHANGED parseVars

\* the graph after graph[start_pkg] = filtered_deps
WriteGraph(g, node, deps) ==
    [n \in DOMAIN g \cup {node} |-> IF n = node THEN deps ELSE g[n]]

\* no guard returns: the node's entry is written, the node joins visited and path
TraverseExpand ==
    /\ pc = "traverse"
    /\ Top.at = "enter"
    /\ ~GuardHit(Top)
    /\ LET filtered_deps == FilterDeps(args.filter, Get(Neighbours, Top.node))
       IN  /\ graph' = WriteGraph(graph, Top.node, filtered_deps)
           /\ stack' = [stack EXCEPT ![Len(stack)] =
                            [@ EXCEPT !.at = "loop", !.deps = filtered_deps,
                                      !.visited = @ \cup {Top.node},
                                      !.path = @ \cup {Top.node}]]
    /\ writes' = [writes EXCEPT ![Top.node] = @ + 1]
    /\ UNCHANGED <<args, pc, repo, repo_keys, reverse_repo, cycles, out, tree, exit_status>>
    /\ UNCHANGED parseVars

\* for dep in filtered_deps: the recursive call
TraverseRecurse ==
    /\ pc = "traverse"
    /\ Top.at = "loop"
    /\ Top.i <= Len(Top.deps)
    /\ Len(stack) < RecursionLimit
    /\ stack' = Append(stack, ChildFrame(Top))
    /\ UNCHANGED <<args, pc, repo, repo_keys, reverse_repo, graph, cycles, writes, out, tree, exit_status>>
    /\ UNCHANGED parseVars

\* the loop is over: path.remove(start_pkg); return graph, cycles
TraverseReturn ==
    /\ pc = "traverse"
    /\ Top.at = "loop"
    /\ Top.i > Len(Top.deps)
    /\ IF Len(stack) = 1
       THEN /\ cycles' = Top.cycles
            /\ stack' = <<>>
            /\ pc' = "built"
       ELSE /\ stack' = Returned(Top.cycles)
            /\ UNCHANGED <<cycles, pc>>
    /\ UNCHANGED <<args, repo, repo_keys, reverse_repo, graph, writes, out, tree, exit_status>>
    /\ UNCHANGED parseVars

\* if cycles: the header and the distinct records
CycleMessages == IF cycles # <<>> THEN <<"cycles">> ELSE <<>>

\* the presentation with --ascii, and the closing line
MainPrintTree ==
    /\ pc = "built"
    /\ tree' = print_ascii_tree(graph, args.package, args.max_depth)
    /\ out' = out \o CycleMessages \o <<"title", "success">>
    /\ pc' = "exit"
    /\ exit_status' = 0
    /\ UNCHANGED <<args, repo, repo_keys, reverse_repo, stack, graph, cycles, writes>>
    /\ UNCHANGED parseVars

\* the presentation without --ascii, and the closing line
MainNotice ==
    /\ pc = "built"
    /\ out' = out \o CycleMessages \o <<"built", "success">>
    /\ pc' = "exit"
    /\ exit_status' = 0
    /\ UNCHANGED <<args, repo, repo_keys, reverse_repo, stack, graph, cycles, writes, tree>>
    /\ UNCHANGED parseVars

Next ==
    \/ MainLoad
    \/ MainLoadFails
    \/ MainNotFound
    \/ MainIndex
    \/ MainNobody
    \/ MainTraverse
    \/ TraverseGuard
    \/ TraverseExpand
    \/ TraverseRecurse
    \/ TraverseReturn
    \/ MainPrintTree
    \/ MainNotice

Spec == Init /\ [][Next]_vars

----------------------------------------------------------------------------
(* The traversal on its own: build_dependency_graph(start_pkg, repo,       *)
(* max_depth, filter_substr) or build_reverse_graph(start_pkg,             *)
(* reverse_repo, max_depth, filter_substr) called with any start package,  *)
(* also one that is no key, run to its return.                             *)

TraverseInit ==
    /\ args \in ArgSets
    /\ pc = "traverse"
    /\ repo \in Repos
    /\ repo_keys = KeysInOrder(repo)
    /\ reverse_repo = build_reverse_index(repo, repo_keys)
    /\ stack = <<NewFrame(args.package, {}, {}, 0)>>
    /\ graph = <<>>
    /\ cycles = <<>>
    /\ writes = [n \in Names |-> 0]
    /\ out = <<>>
    /\ tree = <<>>
    /\ exit_status = -1
    /\ InitParseIdle

TraverseNext ==
    \/ TraverseGuard
    \/ TraverseExpand
    \/ TraverseRecurse
    \/ TraverseReturn

\* the interpreter always takes the next step of the running call
FairSpec == TraverseInit /\ [][TraverseNext]_vars /\ WF_vars(TraverseNext)

----------------------------------------------------------------------------
(* parse_apkindex. A line is a sequence of characters; the dict            *)
(* current_pkg is a function from its keys to their values.                *)

\* None of Python, as a value no text is equal to
NoneValue == <<"None">>

\* the characters of the lines tried
Chars == {"a", "b", ":", "=", " "}

\* the names of the records tried
PkgNames == {<<"a">>, <<"b">>}

\* the key 'depends' of current_pkg
DependsKey == <<"d", "e", "p", "e", "n", "d", "s">>

\* bool(x) of a text or None
Truthy(x) == x # NoneValue /\ x # <<>>

RECURSIVE LStrip(_)
LStrip(line) ==
    IF line # <<>> /\ Head(line) = " " THEN LStrip(Tail(line)) ELSE line

RECURSIVE RStrip(_)
RStrip(line) ==
    IF line # <<>> /\ line[Len(line)] = " "
    THEN RStrip(SubSeq(line, 1, Len(line) - 1))
    ELSE line

\* line.strip()
Strip(line) == RStrip(LStrip(line))

\* sep in line
HasChar(line, sep) == \E i \in 1..Len(line) : line[i] = sep

\* the place of the first sep in line
FirstIndex(line, sep) ==
    CHOOSE i \in 1..Len(line) : line[i] = sep /\ \A j \in 1..(i - 1) : line[j] # sep

\* line.split(sep, 1)[0] and line.split(sep)[0]: what precedes the first sep
BeforeFirst(line, sep) ==
    IF HasChar(line, sep) THEN SubSeq(line, 1, FirstIndex(line, sep) - 1) ELSE line

\* line.split(sep, 1)[-1]: what follows the first sep
AfterFirst(line, sep) ==
    IF HasChar(line, sep) THEN SubSeq(line, FirstIndex(line, sep) + 1, Len(line)) ELSE line

RECURSIVE SplitWs(_)
\* value.split(): the runs of characters between white space
SplitWs(value) ==
    LET v == LStrip(value)
    IN  IF v = <<>> THEN <<>>
        ELSE <<BeforeFirst(v, " ")>> \o
             (IF HasChar(v, " ") THEN SplitWs(AfterFirst(v, " ")) ELSE <<>>)

\* clean_dep = dep.split(':', 1)[-1] if ':' in dep else dep
\* clean_dep = clean_dep.split('=')[0]
CleanDep(dep) ==
    BeforeFirst(IF HasChar(dep, ":") THEN AfterFirst(dep, ":") ELSE dep, "=")

RECURSIVE Depends(_, _, _)
\* for dep in value.split(): ... if clean_dep and clean_dep != current_name:
\*     deps.append(clean_dep)
Depends(tokens, i, name) ==
    IF i > Len(tokens) THEN <<>>
    ELSE (IF CleanDep(tokens[i]) # <<>> /\ CleanDep(tokens[i]) # name
          THEN <<CleanDep(tokens[i])>> ELSE <<>>)
         \o Depends(tokens, i + 1, name)

\* the dict d with d[key] = value
SetItem(d, key, value) ==
    [k \in DOMAIN d \cup {key} |-> IF k = key THEN value ELSE d[k]]

\* packages after: if current_name and 'P' in current_pkg:
\*     packages[current_name] = current_pkg.get('depends', [])
Commit(pkgs, name, pkg) ==
    IF Truthy(name) /\ <<"P">> \in DOMAIN pkg
    THEN SetItem(pkgs, name, IF DependsKey \in DOMAIN pkg THEN pkg[DependsKey] ELSE <<>>)
    ELSE pkgs

\* the records tried: P and D lines of a package, then nothing, a blank
\* line, a second record, a line without a colon or a line of another key
OtherName(n) == CHOOSE m \in PkgNames : m # n

TailsFor(n) ==
    {<<>>, <<<<>>>>, <<<<" ">>, <<"P", ":">> \o OtherName(n)>>, <<<<"a", "b">>>>,
     <<<<"b", ":", " ", "a">>>>}

\* the D values tried: every text of at most MaxValueLen characters
Values == SeqsUpTo(Chars, MaxValueLen)

InitMainIdle ==
    /\ args = [package |-> <<"a">>, reverse |-> FALSE, max_depth |-> 1, filter |-> <<>>]
    /\ repo = <<>>
    /\ repo_keys = <<>>
    /\ reverse_repo = <<>>
    /\ stack = <<>>
    /\ graph = <<>>
    /\ cycles = <<>>
    /\ writes = [n \in Names |-> 0]
    /\ out = <<>>
    /\ tree = <<>>
    /\ exit_status = -1

\* parse_apkindex(data) is entered: lines = text.splitlines()
ParseInit ==
    /\ pc = "parse"
    /\ \E n \in PkgNames, v \in Values :
        \E t \in TailsFor(n) :
            text = <<<<"P", ":">> \o n, <<"D", ":">> \o v>> \o t
    /\ pos = 1
    /\ packages = <<>>
    /\ current_pkg = <<>>
    /\ current_name = NoneValue
    /\ InitMainIdle

\* one iteration of: for line in lines
ParseLine ==
    /\ pc = "parse"
    /\ pos <= Len(text)
    /\ pos' = pos + 1
    /\ LET line == Strip(text[pos])
           key == BeforeFirst(line, ":")
           value == Strip(AfterFirst(line, ":"))
       IN  IF line = <<>>
           THEN /\ packages' = Commit(packages, current_name, current_pkg)
                /\ current_pkg' = <<>>
                /\ current_name' = NoneValue
           ELSE IF ~HasChar(line, ":")
           THEN UNCHANGED <<packages, current_pkg, current_name>>
           ELSE IF key = <<"P">>
           THEN /\ current_name' = value
                /\ current_pkg' = SetItem(<<>>, <<"P">>, value)
                /\ UNCHANGED packages
           ELSE IF key = <<"D">>
           THEN /\ current_pkg' = SetItem(current_pkg, DependsKey,
                                          Depends(SplitWs(value), 1, current_name))
                /\ UNCHANGED <<packages, current_name>>
           ELSE /\ current_pkg' = SetItem(current_pkg, key, value)
                /\ UNCHANGED <<packages, current_name>>
    /\ UNCHANGED <<pc, text>>
    /\ UNCHANGED mainVars_but_pc

\* after the loop: the last record is committed; return packages
ParseFinish ==
    /\ pc = "parse"
    /\ pos > Len(text)
    /\ packages' = Commit(packages, current_name, current_pkg)
    /\ pc' = "parsed"
    /\ UNCHANGED <<text, pos, current_pkg, current_name>>
    /\ UNCHANGED mainVars_but_pc

ParseNext == ParseLine \/ ParseFinish

ParseSpec == ParseInit /\ [][ParseNext]_vars

----------------------------------------------------------------------------
(* Vocabulary of the properties.                                           *)

\* s contains f as a contiguous piece
Contains(s, f) == \E i \in 1..(Len(s) + 1), j \in 0..Len(s) : SubSeq(s, i, j) = f

RECURSIVE WithinDistance(_, _, _)
\* the names a chain of at most d edges of the mapping m reaches from start
WithinDistance(m, start, d) ==
    IF d = 0 THEN {start}
    ELSE LET near == WithinDistance(m, start, d - 1)
         IN  near \cup {n \in Names : \E p \in near : n \in Range(Get(m, p))}

\* the traversal has started (Neighbours is the mapping it walks)
Traversing == pc \in {"traverse", "built"} \/ (pc = "exit" /\ "success" \in Range(out))

\* the names of the frames below the top one: the chain of calls from the
\* root of the traversal to the caller of the top frame
Chain == {stack[k].node : k \in 1..(Len(stack) - 1)}

\* the cycle records the step hands to the caller of the top frame
\* (to main when the top frame is the only one); none when no frame returns
Handed ==
    IF Len(stack') # Len(stack) - 1 THEN <<>>
    ELSE IF Len(stack) = 1 THEN cycles'
    ELSE LET n == Len(stack) - 1
         IN  SubSeq(stack'[n].cycles, Len(stack[n].cycles) + 1, Len(stack'[n].cycles))

\* the step in which a call evaluates its guards
EnterStep == pc = "traverse" /\ Top.at = "enter" /\ stack' # stack

----------------------------------------------------------------------------
(* C1: during one traversal every node is expanded, and its entry of the   *)
(* graph written, at most once, however many paths reach it.               *)
C1_ExpandedAtMostOnce == \A n \in Names : writes[n] <= 1

(* C2: in the printed tree a node other than the start has at most one     *)
(* ordinary line; every later occurrence is a leaf annotated as already    *)
(* shown.                                                                  *)
C2_LaterOccurrencesAnnotated ==
    \A i, j \in 1..Len(tree) :
        (/\ i < j
         /\ tree[i].kind = "node"
         /\ tree[j].kind \in {"node", "ref"}
         /\ tree[j].node = tree[i].node
         /\ tree[j].node # args.package)
        => tree[j].kind = "ref"

(* C3: every key of the graph is within max_depth edges of the start node  *)
(* in the mapping that is walked.                                          *)
C3_KeysWithinMaxDepth ==
    Traversing => DOMAIN graph \subseteq WithinDistance(Neighbours, args.package, args.max_depth)

\* a run ended with a node at distance max_depth in the graph and a
\* further node, reachable only beyond max_depth, left out
C3_Witness ==
    /\ pc = "exit"
    /\ \E k \in DOMAIN graph :
        k \notin WithinDistance(Neighbours, args.package, args.max_depth - 1)
    /\ \E n \in Names :
        /\ n \in WithinDistance(Neighbours, args.package, args.max_depth + 1)
        /\ n \notin WithinDistance(Neighbours, args.package, args.max_depth)
        /\ n \notin DOMAIN graph

(* C4: with a filter f, no name containing f is a key of the graph or in a *)
(* neighbour list; without a filter every list is the mapping's list of    *)
(* its key, the empty list for a name the mapping lacks.                   *)
C4_FilterRespected ==
    Traversing =>
        \A k \in DOMAIN graph :
            IF args.filter # <<>>
            THEN /\ ~Contains(k, args.filter)
                 /\ \A i \in 1..Len(graph[k]) : ~Contains(graph[k][i], args.filter)
            ELSE graph[k] = (IF k \in DOMAIN Neighbours THEN Neighbours[k] ELSE <<>>)

\* a run with a filter ended with a graph from whose lists a neighbour
\* containing the filter (without being equal to it) was dropped
C4_Witness ==
    /\ pc = "exit"
    /\ args.filter # <<>>
    /\ \E k \in DOMAIN graph :
        /\ k \in DOMAIN Neighbours
        /\ \E i \in 1..Len(Neighbours[k]) :
            Contains(Neighbours[k][i], args.filter) /\ Neighbours[k][i] # args.filter

(* C5: a call emits a cycle record exactly when its depth is at most       *)
(* max_depth and its node is on the chain of its callers; the record holds *)
(* every name of the chain and ends with the repeated node, and the call   *)
(* expands nothing. For {a: [b], b: [a]} from a with max_depth >= 2 a      *)
(* record naming a and b is returned and the entry of a is [b].            *)
C5_CycleExactlyOnChain ==
    /\ [][EnterStep =>
            IF Top.depth <= args.max_depth /\ Top.node \in Chain
            THEN /\ Len(Handed) = 1
                 /\ Chain \subseteq Range(Handed[1])
                 /\ Handed[1][Len(Handed[1])] = Top.node
                 /\ graph' = graph
                 /\ writes' = writes
            ELSE Handed = <<>>]_vars
    /\ [](/\ pc = "exit"
          /\ "success" \in Range(out)
          /\ ~args.reverse
          /\ args.package = <<"a">>
          /\ args.max_depth >= 2
          /\ args.filter = <<>>
          /\ repo = (<<"a">> :> <<<<"b">>>> @@ <<"b">> :> <<<<"a">>>>)
          => /\ \E i \in 1..Len(cycles) : {<<"a">>, <<"b">>} \subseteq Range(cycles[i])
             /\ graph[<<"a">>] = <<<<"b">>>>)

\* a run ended with a record of a chain of two names and the repeated one,
\* and with a node expanded in a sibling branch that no record names
C5_Witness ==
    /\ pc = "exit"
    /\ \E i \in 1..Len(cycles) : Len(cycles[i]) >= 3
    /\ \E n \in Names : writes[n] >= 1 /\ \A i \in 1..Len(cycles) : n \notin Range(cycles[i])

(* C6: the reverse index holds exactly the edges of the index, turned      *)
(* round, and no key of it has an empty list.                              *)
C6_ReverseIndexEdges ==
    pc \in {"indexed", "traverse", "built"} =>
        /\ UNION {{<<p, d>> : p \in Range(reverse_repo[d])} : d \in DOMAIN reverse_repo}
              = UNION {{<<p, d>> : d \in Range(repo[p])} : p \in DOMAIN repo}
        /\ \A d \in DOMAIN reverse_repo : reverse_repo[d] # <<>>

\* the index was inverted with a repeated entry, a package with two
\* dependents and a package nobody depends on
C6_Witness ==
    /\ pc = "indexed"
    /\ \E d \in DOMAIN reverse_repo :
        /\ Len(reverse_repo[d]) >= 2
        /\ Cardinality(Range(reverse_repo[d])) = 2
    /\ \E d \in DOMAIN reverse_repo :
        Len(reverse_repo[d]) > Cardinality(Range(reverse_repo[d]))
    /\ \E n \in DOMAIN repo : n \notin DOMAIN reverse_repo

(* C7: the traversal always returns, whatever cycles, self-references and  *)
(* missing names the mapping has, for every start node, max_depth and      *)
(* filter.                                                                 *)
C7_TraversalTerminates == <>(pc = "built" /\ stack = <<>>)

\* a traversal over a mapping with a self-reference and a name that is no
\* key has returned, with a cycle found
C7_Witness ==
    /\ pc = "built"
    /\ stack = <<>>
    /\ cycles # <<>>
    /\ \E n \in DOMAIN graph : n \in Range(Get(Neighbours, n))
    /\ \E n \in DOMAIN graph : n \notin DOMAIN Neighbours

\* the token after its last ':' (the whole token when it has none)
AfterLastColon(tok) ==
    IF \E i \in 1..Len(tok) : tok[i] = ":"
    THEN LET last == CHOOSE i \in 1..Len(tok) :
                         tok[i] = ":" /\ \A j \in (i + 1)..Len(tok) : tok[j] # ":"
         IN  SubSeq(tok, last + 1, Len(tok))
    ELSE tok

\* a token cut to what follows its last ':' and then at its first '='
TrailingSegment(tok) == BeforeFirst(AfterLastColon(tok), "=")

\* the D value of the first record of the text, and its name
FirstName == SubSeq(text[1], 3, Len(text[1]))

FirstValue == SubSeq(text[2], 3, Len(text[2]))

(* C8: a record P = n with a D line is mapped to its tokens in order, each *)
(* cut to what follows its last ':' and then at its first '=', without the *)
(* tokens that become empty or n.                                          *)
C8_TokensNormalized ==
    pc = "parsed" =>
        /\ FirstName \in DOMAIN packages
        /\ packages[FirstName] =
              SelectSeq([i \in 1..Len(SplitWs(FirstValue)) |->
                             TrailingSegment(SplitWs(FirstValue)[i])],
                        LAMBDA d : d # <<>> /\ d # FirstName)

(* C9: after a successful load, a forward run for a package that is no key *)
(* of the index ends with status 1, no graph and no success line; a        *)
(* reverse run for a package nobody depends on ends with the "nobody       *)
(* depends on it" line and status 0, also when the index lacks the package.*)
C9_LookupOutcomes ==
    (pc = "exit" /\ "loaded" \in Range(out)) =>
        /\ (~args.reverse /\ args.package \notin DOMAIN repo)
              => /\ exit_status = 1
                 /\ graph = <<>>
                 /\ \A n \in Names : writes[n] = 0
                 /\ "success" \notin Range(out)
        /\ (args.reverse /\ \A p \in DOMAIN repo : args.package \notin Range(repo[p]))
              => /\ exit_status = 0
                 /\ "nobody" \in Range(out)
                 /\ "not_found" \notin Range(out)
                 /\ "error" \notin Range(out)

\* a reverse run for a package that the index lacks and nobody depends on
\* has ended
C9_Witness ==
    /\ pc = "exit"
    /\ "loaded" \in Range(out)
    /\ args.reverse
    /\ args.package \notin DOMAIN repo
    /\ repo # <<>>
    /\ "nobody" \in Range(out)

(* C10: in the printed tree every line annotated as already shown follows  *)
(* a line that shows the same node: the bare start line or an ordinary     *)
(* line.                                                                   *)
C10_AnnotatedWasShown ==
    \A j \in 1..Len(tree) :
        tree[j].kind = "ref" =>
            \E i \in 1..(j - 1) :
                tree[i].node = tree[j].node /\ tree[i].kind \in {"root", "node"}

====
